---- MODULE Spec2Model ----
(***************************************************************************)
(* Model of the Linux-File-Librarian ingestion pipeline                    *)
(* (src/src/library_builder.py, src/src/classifier.py), of the PDF repair  *)
(* of src/src/librarian.py and of src/src/resource_manager.py.             *)
(*                                                                         *)
(* Text is a sequence of one-character strings, so that lower-casing,      *)
(* stripping, substring tests and suffix tests are computed, not assumed.  *)
(* Python's None is the text NoneText inside a tuple or a record, and the  *)
(* empty sequence where a tier of the classifier returns no result.        *)
(***************************************************************************)
EXTENDS Integers, Sequences, FiniteSets, TLC

VARIABLES
    fs,               \* the source tree in discovery order (os.walk order)
    staged,           \* rows of file_scan_batches.csv
    pdf_validation,   \* LibraryBuilder.pdf_validation: path -> details
    analysis_results, \* LibraryBuilder.analysis_results
    analysed,         \* history: every result analyze_row returned in this run
    unique_files,     \* what deduplicate_files returns (<<>> for None)
    index,            \* rows of the files table of library_index.sqlite
    copies,           \* the writes shutil.copy2 made, in order
    pc,               \* position of build()
    kb,               \* the knowledge store: products and alternate titles
    query,            \* the arguments of one classify / analyze_row call
    cls,              \* what Classifier.classify returned for query
    row_result,       \* what analyze_row returned for query
    cpc,              \* position of the classifier scenario
    config,           \* what the run is configured with: source root, library_root
    pdf_case,         \* one PDF handed to validate_and_repair_pdf, and its tools
    repaired,         \* what validate_and_repair_pdf returned for pdf_case
    source_tree,      \* the paths present in the directory of pdf_case
    rpc,              \* position of the repair scenario
    mem,              \* what /proc/meminfo and psutil report right now
    now,              \* time.time(), in seconds
    max_workers,      \* ResourceManager.max_workers
    min_free_mb,      \* ResourceManager.min_free_mb
    _cached_worker_count, \* ResourceManager._cached_worker_count (0 for None)
    _last_check_time, \* ResourceManager._last_check_time
    workers,          \* what the last get_safe_worker_count call returned
    wpc,              \* position of the worker-count scenario
    copied_count,     \* copy_and_index: copied_count
    failed_count,     \* copy_and_index: failed_count
    worker_queries,   \* calls of get_safe_worker_count made by build()
    run,              \* which build() of the same source tree this is
    first_index,      \* the index the first build() left behind
    log_file,         \* the records log_error appended to librarian_run.log
    _error_counts,    \* librarian._error_counts of the orchestrating process
    proc,             \* the multiprocessing.Process of run_with_timeout
    queue,            \* what the Process has put on the Queue
    timed,            \* what run_with_timeout returned
    tpc,              \* position of run_with_timeout
    children,         \* processes of the validation phase still alive
    waited_children,  \* build_library: waited, in seconds
    phase,            \* the phase build_library is in
    wait_args,        \* the arguments and readings of one wait_for_free_ram call
    waited,           \* wait_for_free_ram: waited
    polls,            \* wait_for_free_ram: reads of the available RAM so far
    fpc               \* position of wait_for_free_ram

vars == <<fs, staged, pdf_validation, analysis_results, analysed, unique_files,
          index, copies, pc, kb, query, cls, row_result, cpc, config,
          pdf_case, repaired, source_tree, rpc,
          mem, now, max_workers, min_free_mb, _cached_worker_count,
          _last_check_time, workers, wpc,
          copied_count, failed_count, worker_queries, run, first_index,
          log_file, _error_counts, proc, queue, timed, tpc,
          children, waited_children, phase, wait_args, waited, polls, fpc>>

pipeVars == <<fs, staged, pdf_validation, analysis_results, analysed,
              unique_files, index, copies, pc, config,
              copied_count, failed_count, worker_queries, run, first_index>>

repairVars == <<pdf_case, repaired, source_tree, rpc>>

workerVars == <<mem, now, max_workers, min_free_mb, _cached_worker_count,
                _last_check_time, workers, wpc>>

logVars == <<log_file, _error_counts>>

timeoutVars == <<proc, queue, timed, tpc>>

phaseVars == <<children, waited_children, phase>>

waitVars == <<wait_args, waited, polls, fpc>>

lateVars == <<logVars, timeoutVars, phaseVars, waitVars>>

auxVars == <<repairVars, workerVars, lateVars>>

buildVars == <<copied_count, failed_count, worker_queries, run, first_index>>

clsVars == <<query, cls, row_result, cpc>>

-----------------------------------------------------------------------------
(* Text helpers *)

NoneText == <<"None">>

Max2(a, b) == IF a >= b THEN a ELSE b

Min2(a, b) == IF a <= b THEN a ELSE b

\* str.lower() on the characters the model uses
LowerChar(c) ==
    CASE c = "A" -> "a"
      [] c = "B" -> "b"
      [] c = "P" -> "p"
      [] c = "D" -> "d"
      [] c = "F" -> "f"
      [] c = "N" -> "n"
      [] c = "G" -> "g"
      [] c = "E_ACUTE_UPPER" -> "e_acute"
      [] OTHER -> c

Lower(text) == [i \in 1..Len(text) |-> LowerChar(text[i])]

\* unicodedata.normalize('NFKD', c): a base letter followed by its combining mark
Decompose(c) ==
    IF c = "e_acute" THEN <<"e", "combining_acute">> ELSE <<c>>

IsCombining(c) == c = "combining_acute"

\* the characters kept by re.sub(r'[^a-z0-9]', '', text)
AlnumChars ==
    {"a","b","c","d","e","f","g","h","i","j","k","l","m","n","o","p","q","r",
     "s","t","u","v","w","x","y","z","0","1","2","3","4","5","6","7","8","9"}

RECURSIVE FlattenText(_)
FlattenText(seqs) ==
    IF seqs = <<>> THEN <<>> ELSE Head(seqs) \o FlattenText(Tail(seqs))

RECURSIVE FilterText(_, _)
FilterText(text, keep) ==
    IF text = <<>> THEN <<>>
    ELSE IF Head(text) \in keep
         THEN <<Head(text)>> \o FilterText(Tail(text), keep)
         ELSE FilterText(Tail(text), keep)

RECURSIVE DropCombining(_)
DropCombining(text) ==
    IF text = <<>> THEN <<>>
    ELSE IF IsCombining(Head(text)) THEN DropCombining(Tail(text))
         ELSE <<Head(text)>> \o DropCombining(Tail(text))

\* Classifier.normalize_text
normalize_text(text) ==
    IF text = <<>> \/ text = NoneText THEN <<>>
    ELSE LET lowered    == Lower(text)
             decomposed == FlattenText([i \in 1..Len(lowered) |-> Decompose(lowered[i])])
             stripped   == DropCombining(decomposed)
         IN  FilterText(stripped, AlnumChars)

\* Python's  needle in hay  on strings
Contains(hay, needle) ==
    \E i \in 0..(Len(hay) - Len(needle)) :
        \A j \in 1..Len(needle) : hay[i + j] = needle[j]

\* str.endswith
EndsWith(text, suffix) ==
    /\ Len(text) >= Len(suffix)
    /\ \A j \in 1..Len(suffix) : text[Len(text) - Len(suffix) + j] = suffix[j]

\* str.startswith
StartsWith(text, prefix) ==
    /\ Len(text) >= Len(prefix)
    /\ \A j \in 1..Len(prefix) : text[j] = prefix[j]

\* mime_type.split('/')[0]
RECURSIVE BeforeSlash(_)
BeforeSlash(text) ==
    IF text = <<>> \/ Head(text) = "/" THEN <<>>
    ELSE <<Head(text)>> \o BeforeSlash(Tail(text))

SetMax(S) == CHOOSE m \in S : \A x \in S : x <= m

DigitText(n) ==
    CASE n = 0 -> <<"0">> [] n = 1 -> <<"1">> [] n = 2 -> <<"2">> [] n = 3 -> <<"3">>
      [] n = 4 -> <<"4">> [] n = 5 -> <<"5">> [] n = 6 -> <<"6">> [] n = 7 -> <<"7">>
      [] n = 8 -> <<"8">> [] n = 9 -> <<"9">>

\* str(n) of a natural number
RECURSIVE NatText(_)
NatText(n) == IF n < 10 THEN DigitText(n) ELSE NatText(n \div 10) \o DigitText(n % 10)

-----------------------------------------------------------------------------
(* rapidfuzz.fuzz.partial_ratio, as called by the classifier *)

RECURSIVE LCSLen(_, _)
LCSLen(s, t) ==
    IF s = <<>> \/ t = <<>> THEN 0
    ELSE IF Head(s) = Head(t) THEN 1 + LCSLen(Tail(s), Tail(t))
         ELSE Max2(LCSLen(Tail(s), t), LCSLen(s, Tail(t)))

\* fuzz.ratio: normalised InDel similarity, 100 * 2*LCS / (len1 + len2)
Ratio(s, t) ==
    IF Len(s) + Len(t) = 0 THEN 100
    ELSE (200 * LCSLen(s, t)) \div (Len(s) + Len(t))

\* the windows of the longer text the shorter one is aligned with: every
\* substring as long as the shorter text, and the shorter prefixes and suffixes
Windows(longer, n) ==
    {SubSeq(longer, i, i + n - 1) : i \in 1..(Len(longer) - n + 1)}
        \cup {SubSeq(longer, 1, k) : k \in 1..Min2(n - 1, Len(longer))}
        \cup {SubSeq(longer, Len(longer) - k + 1, Len(longer)) : k \in 1..Min2(n - 1, Len(longer))}

partial_ratio(s1, s2) ==
    LET shorter == IF Len(s1) <= Len(s2) THEN s1 ELSE s2
        longer  == IF Len(s1) <= Len(s2) THEN s2 ELSE s1
    IN  IF Len(s1) = 0 /\ Len(s2) = 0 THEN 100
        ELSE IF Len(shorter) = 0 THEN 0
        ELSE SetMax({Ratio(shorter, w) : w \in Windows(longer, Len(shorter))})

FuzzyThreshold == 90

-----------------------------------------------------------------------------
(* A Python dict as the sequence of its <<key, value>> items in insertion
   order; assigning an existing key keeps its place. *)

DictHas(d, k) == \E i \in 1..Len(d) : d[i][1] = k

DictGet(d, k) == d[CHOOSE i \in 1..Len(d) : d[i][1] = k][2]

DictSet(d, k, v) ==
    IF DictHas(d, k)
    THEN [i \in 1..Len(d) |-> IF d[i][1] = k THEN <<k, v>> ELSE d[i]]
    ELSE Append(d, <<k, v>>)

DictKeys(d) == [i \in 1..Len(d) |-> d[i][1]]

\* Python truthiness of a str or None
TruthyText(t) == t # <<>> /\ t # NoneText

\* Python truthiness of what a tier returns: a 3-tuple or None
Truthy(result) == result # <<>>

-----------------------------------------------------------------------------
(* Classifier (src/src/classifier.py) *)

RECURSIVE load_products_to_cache(_, _)
load_products_to_cache(rows, cache) ==
    IF rows = <<>> THEN cache
    ELSE LET r      == Head(rows)
             value  == <<r.system, r.edition, r.category>>
             c1     == IF TruthyText(r.code)
                       THEN DictSet(cache, normalize_text(r.code), value)
                       ELSE cache
             c2     == IF TruthyText(r.title)
                       THEN DictSet(c1, normalize_text(r.title), value)
                       ELSE c1
         IN  load_products_to_cache(Tail(rows), c2)

\* rows come back in table order
RECURSIVE load_path_keywords(_, _)
load_path_keywords(rows, keywords) ==
    IF rows = <<>> THEN keywords
    ELSE LET r  == Head(rows)
             k1 == IF r.system = NoneText THEN keywords
                   ELSE DictSet(keywords, normalize_text(r.system), r.system)
             k2 == IF r.system # NoneText /\ TruthyText(r.edition)
                   THEN DictSet(k1, normalize_text(r.edition), r.system)
                   ELSE k1
         IN  load_path_keywords(Tail(rows), k2)

\* returns <<product_cache, path_keywords>>
RECURSIVE load_alternate_keywords(_, _, _)
load_alternate_keywords(rows, cache, keywords) ==
    IF rows = <<>> THEN <<cache, keywords>>
    ELSE LET r == Head(rows)
         IN  IF TruthyText(r.alt_title)
             THEN load_alternate_keywords(Tail(rows),
                     DictSet(cache, normalize_text(r.alt_title),
                             <<r.system, r.edition, r.category>>),
                     DictSet(keywords, normalize_text(r.alt_title), r.system))
             ELSE load_alternate_keywords(Tail(rows), cache, keywords)

\* Classifier.__init__: an absent knowledge base leaves both dicts empty
product_cache(base) ==
    IF ~base.present THEN <<>>
    ELSE load_alternate_keywords(base.alts,
            load_products_to_cache(base.products, <<>>),
            load_path_keywords(base.products, <<>>))[1]

path_keywords(base) ==
    IF ~base.present THEN <<>>
    ELSE load_alternate_keywords(base.alts,
            load_products_to_cache(base.products, <<>>),
            load_path_keywords(base.products, <<>>))[2]

\* sorted(keys, key=len, reverse=True): stable, equal lengths keep dict order
RECURSIVE SortedByLenDesc(_, _)
SortedByLenDesc(keys, len) ==
    LET here == SelectSeq(keys, LAMBDA k : Len(k) = len)
    IN  IF len = 0 THEN here ELSE here \o SortedByLenDesc(keys, len - 1)

\* the keys as the dict iterates them, not sorted by length
InsertionOrder(keys) == keys

LongestFirst(keys) ==
    IF keys = <<>> THEN <<>>
    ELSE SortedByLenDesc(keys, SetMax({Len(keys[i]) : i \in 1..Len(keys)}))

\* the first element of a sequence satisfying Test, or <<>> as "none"
FirstIndex(seq, Test(_)) ==
    IF \E i \in 1..Len(seq) : Test(seq[i])
    THEN CHOOSE i \in 1..Len(seq) : Test(seq[i]) /\ \A j \in 1..(i - 1) : ~Test(seq[j])
    ELSE 0

ExactFilenameKey(cache, filename) ==
    LET clean == normalize_text(filename)
        keys  == LongestFirst(DictKeys(cache))
        i     == FirstIndex(keys, LAMBDA k : Contains(clean, k))
    IN  IF i = 0 THEN <<>> ELSE <<keys[i]>>

FuzzyFilenameKey(cache, filename) ==
    LET clean == normalize_text(filename)
        keys  == DictKeys(cache)
        i     == FirstIndex(keys, LAMBDA k : partial_ratio(clean, k) >= FuzzyThreshold)
    IN  IF i = 0 THEN <<>> ELSE <<keys[i]>>

\* the fuzzy loop consulted before the substring loop
_classify_by_filename_fuzzy_first(cache, filename) ==
    LET exact == ExactFilenameKey(cache, filename)
        fuzzy == FuzzyFilenameKey(cache, filename)
    IN  IF fuzzy # <<>> THEN DictGet(cache, fuzzy[1])
        ELSE IF exact # <<>> THEN DictGet(cache, exact[1])
        ELSE <<>>

_classify_by_filename(cache, filename) ==
    LET exact == ExactFilenameKey(cache, filename)
        fuzzy == FuzzyFilenameKey(cache, filename)
    IN  IF exact # <<>> THEN DictGet(cache, exact[1])
        ELSE IF fuzzy # <<>> THEN DictGet(cache, fuzzy[1])
        ELSE <<>>

\* one parent directory name: exact keyword, then the first fuzzy keyword
PathPartSystem(keywords, part) ==
    LET clean == normalize_text(part)
        keys  == DictKeys(keywords)
        i     == FirstIndex(keys, LAMBDA k : partial_ratio(clean, k) >= FuzzyThreshold)
    IN  IF DictHas(keywords, clean) THEN <<DictGet(keywords, clean)>>
        ELSE IF i # 0 THEN <<DictGet(keywords, keys[i])>>
        ELSE <<>>

FromFolder == <<"F","r","o","m"," ","F","o","l","d","e","r">>

Heuristic == <<"H","e","u","r","i","s","t","i","c">>

\* parents are Path(full_path).parts[:-1]; walked from the innermost outwards
RECURSIVE WalkParents(_, _)
WalkParents(keywords, parents) ==
    IF parents = <<>> THEN <<>>
    ELSE LET hit == PathPartSystem(keywords, parents[Len(parents)])
         IN  IF hit # <<>> THEN <<hit[1], FromFolder, Heuristic>>
             ELSE WalkParents(keywords, SubSeq(parents, 1, Len(parents) - 1))

_classify_by_path(keywords, parents) ==
    IF keywords = <<>> THEN <<>> ELSE WalkParents(keywords, parents)

T_video == <<"v","i","d","e","o">>
T_audio == <<"a","u","d","i","o">>
T_image == <<"i","m","a","g","e">>
T_text == <<"t","e","x","t">>
T_zip == <<"z","i","p">>
T_rar == <<"r","a","r">>
T_7z == <<"7","z">>
T_pdf == <<"p","d","f">>
T_msword == <<"m","s","w","o","r","d">>
T_officedocument == <<"o","f","f","i","c","e","d","o","c","u","m","e","n","t">>
T_application == <<"a","p","p","l","i","c","a","t","i","o","n">>

Media == <<"M","e","d","i","a">>
Video == <<"V","i","d","e","o">>
Audio == <<"A","u","d","i","o">>
Images == <<"I","m","a","g","e","s">>
Archives == <<"A","r","c","h","i","v","e","s">>
Documents == <<"D","o","c","u","m","e","n","t","s">>
PDF == <<"P","D","F">>
Office == <<"O","f","f","i","c","e">>
Text == <<"T","e","x","t">>
SoftwareData == <<"S","o","f","t","w","a","r","e"," ","&"," ","D","a","t","a">>
Miscellaneous == <<"M","i","s","c","e","l","l","a","n","e","o","u","s">>

_classify_by_mimetype(mime_type) ==
    LET major_type == BeforeSlash(mime_type)
    IN  IF major_type = T_video THEN <<Media, Video, NoneText>>
        ELSE IF major_type = T_audio THEN <<Media, Audio, NoneText>>
        ELSE IF major_type = T_image THEN <<Media, Images, NoneText>>
        ELSE IF Contains(mime_type, T_zip) \/ Contains(mime_type, T_rar)
                \/ Contains(mime_type, T_7z) THEN <<Archives, NoneText, NoneText>>
        ELSE IF Contains(mime_type, T_pdf) THEN <<Documents, PDF, NoneText>>
        ELSE IF Contains(mime_type, T_msword) \/ Contains(mime_type, T_officedocument)
             THEN <<Documents, Office, NoneText>>
        ELSE IF major_type = T_text THEN <<Documents, Text, NoneText>>
        ELSE IF Contains(mime_type, T_application) THEN <<SoftwareData, NoneText, NoneText>>
        ELSE <<>>

\* classify without its last line: the MIME result is returned as it is
classify_without_default(base, filename, parents, mime_type) ==
    LET by_name == _classify_by_filename(product_cache(base), filename)
        by_path == _classify_by_path(path_keywords(base), parents)
        by_mime == _classify_by_mimetype(mime_type)
    IN  IF Truthy(by_name) THEN by_name
        ELSE IF Truthy(by_path) THEN by_path
        ELSE by_mime

classify(base, filename, parents, mime_type) ==
    LET by_name == _classify_by_filename(product_cache(base), filename)
        by_path == _classify_by_path(path_keywords(base), parents)
        by_mime == _classify_by_mimetype(mime_type)
    IN  IF Truthy(by_name) THEN by_name
        ELSE IF Truthy(by_path) THEN by_path
        ELSE IF Truthy(by_mime) THEN by_mime
        ELSE <<Miscellaneous, NoneText, NoneText>>

-----------------------------------------------------------------------------
(* Files, staging rows and analyze_row (src/src/library_builder.py) *)

NaN == <<"NaN">>

N_empty == <<>>
N_NA == <<"N","A">>

\* pandas.read_csv turns an empty field and the default NA spellings into NaN
read_csv_field(text) == IF text \in {N_empty, N_NA} THEN NaN ELSE text

Ext_pdf == <<".","p","d","f">>
Ext_png == <<".","p","n","g">>
Ext_txt == <<".","t","x","t">>

ImageExtensions ==
    {<<".","j","p","g">>, <<".","j","p","e","g">>, Ext_png, <<".","g","i","f">>,
     <<".","b","m","p">>, <<".","t","i","f","f">>}

Mime_pdf == <<"a","p","p","l","i","c","a","t","i","o","n","/","p","d","f">>
Mime_png == <<"i","m","a","g","e","/","p","n","g">>
Mime_text == <<"t","e","x","t","/","p","l","a","i","n">>
Mime_octet == <<"a","p","p","l","i","c","a","t","i","o","n","/","o","c","t","e","t","-","s","t","r","e","a","m">>
Mime_unknown == <<"x","-","u","n","k","n","o","w","n">>
T_image_slash == <<"i","m","a","g","e","/">>

Graphics == <<"G","r","a","p","h","i","c","s">>
Sound == <<"S","o","u","n","d">>
Other == <<"O","t","h","e","r">>

\* hashlib.sha256 of the bytes: one digest per content, no collisions
Sha256(content) == <<"sha256", content>>

\* get_file_hash_standalone: None for a file that is gone or cannot be read
get_file_hash_standalone(file) ==
    IF file.avail = "ok" THEN Sha256(file.content) ELSE NoneText

\* the extension fallback of analyze_row when the Classifier raises
FallbackClassification(name) ==
    LET low == Lower(name)
        has(exts) == \E e \in exts : Contains(low, e)
    IN  IF ~TruthyText(name) THEN <<NoneText, NoneText, NoneText>>
        ELSE IF has({Ext_pdf, <<".","d","o","c">>, Ext_txt}) THEN <<Documents, NoneText, Text>>
        ELSE IF has({<<".","m","p","3">>, <<".","w","a","v">>, <<".","o","g","g">>})
             THEN <<Audio, NoneText, Sound>>
        ELSE IF has({<<".","m","p","4">>, <<".","a","v","i">>, <<".","m","k","v">>})
             THEN <<Video, NoneText, Media>>
        ELSE <<Miscellaneous, NoneText, Other>>

\* row is a staging row, file the file its path names; parents the directory
\* names of the path; validation the pdf_validation dict; the result is <<>>
\* where analyze_row returns None
analyze_row(row, file, parents, base, validation, classifier_ok) ==
    LET name      == row.name
        is_str    == name # NaN
        mime_type == file.mime
        file_hash == get_file_hash_standalone(file)
        by_mime   == Contains(Lower(mime_type), T_image_slash)
        by_ext    == is_str /\ \E e \in ImageExtensions : EndsWith(Lower(name), e)
        is_pdf    == TruthyText(name) /\ EndsWith(Lower(name), Ext_pdf)
        pdf_info  == IF ~is_pdf THEN <<"None", "None">>
                     ELSE IF row.path \in DOMAIN validation THEN validation[row.path]
                     ELSE file.pdf
        triple    == IF classifier_ok THEN classify(base, name, parents, mime_type)
                     ELSE FallbackClassification(name)
    IN  IF file.avail # "ok" THEN <<>>
        ELSE IF by_mime \/ by_ext
             THEN IF file_hash = NoneText THEN <<>>
                  ELSE <<[mime_type |-> mime_type, hash |-> file_hash,
                          is_pdf_valid |-> "None", has_ocr |-> "None",
                          game_system |-> Images, edition |-> NoneText,
                          category |-> Graphics, language |-> NoneText]>>
        ELSE IF ~is_str THEN <<>>      \* name.lower() raises on a NaN name
        ELSE IF file_hash = NoneText THEN <<>>
        ELSE <<[mime_type |-> mime_type, hash |-> file_hash,
                is_pdf_valid |-> pdf_info[1], has_ocr |-> pdf_info[2],
                game_system |-> triple[1], edition |-> triple[2],
                category |-> triple[3], language |-> NoneText]>>

-----------------------------------------------------------------------------
(* Bounds of the model *)

\* at most this many entries in the source tree
MaxFiles == 3

\* the source slices the staging file and the analysis results by 1000 rows in
\* deduplicate_files; the model slices by DedupChunkSize so that a run of
\* MaxFiles files spans more than one slice
DedupChunkSize == 2

\* the MemoryError handler of classify_and_analyze keeps the last 1000 results;
\* the model keeps the last MemoryKeepLast so that the cut happens within MaxFiles
MemoryKeepLast == 1

\* RAM reported by get_available_ram_mb
AvailableMb == 2048

-----------------------------------------------------------------------------
(* The pipeline of LibraryBuilder.build *)

MinPdfSizeBytes == 1024

ScanMinSize == 10

SizeOf(content) ==
    CASE content = "c1" -> 500
      [] content = "c2" -> 2000
      [] content = "c3" -> 3000

Contents == {"c1", "c2", "c3"}

Name_a_pdf == <<"a">> \o Ext_pdf
Name_a_txt == <<"a">> \o Ext_txt
Name_a_1_txt == <<"a","_","1">> \o Ext_txt

\* what PDFManager.get_pdf_details returns for a file: <<is_valid, has_text>>;
\* <<"False", "True">> when the 30 s alarm or a RuntimeError arrives after a
\* page has given text and qpdf --check then rejects the file
PdfOutcomes ==
    {<<"True", "True">>, <<"True", "False">>, <<"False", "False">>, <<"False", "True">>}

\* the files a source tree is made of: PDFs, with each validation outcome;
\* text files, in place ("ok"), vanished after the scan ("gone"), without
\* read permission ("denied": os.stat succeeds, open raises PermissionError)
\* or a symlink whose target is missing ("broken_link"); a file called
\* NA, whose name read_csv gives back as NaN; and a text file whose own name
\* a_1.txt is the name copy_and_index gives to a second a.txt
FileKinds ==
    {[name |-> Name_a_pdf, mime |-> Mime_pdf, content |-> c, pdf |-> o, avail |-> "ok"] :
        c \in Contents, o \in PdfOutcomes}
    \cup {[name |-> Name_a_txt, mime |-> Mime_text, content |-> c,
           pdf |-> <<"False", "False">>, avail |-> a] :
        c \in Contents, a \in {"ok", "gone"}}
    \cup {[name |-> Name_a_txt, mime |-> Mime_text, content |-> "c2",
           pdf |-> <<"False", "False">>, avail |-> a] : a \in {"denied", "broken_link"}}
    \cup {[name |-> N_NA, mime |-> Mime_text, content |-> c,
           pdf |-> <<"False", "False">>, avail |-> "ok"] : c \in Contents}
    \cup {[name |-> Name_a_1_txt, mime |-> Mime_text, content |-> "c3",
           pdf |-> <<"False", "False">>, avail |-> "ok"]}

RECURSIVE SeqsUpTo(_, _)
SeqsUpTo(S, n) ==
    IF n = 0 THEN {<<>>}
    ELSE LET shorter == SeqsUpTo(S, n - 1)
         IN  shorter \cup {Append(q, x) : q \in {r \in shorter : Len(r) = n - 1}, x \in S}

\* Path(path).parts[:-1]: entry i of the walk lies in its own directory
\* /src/<i>, so that two entries may carry the same file name
ParentsOf(i) == <<<<"/">>, <<"s","r","c">>, NatText(i)>>

\* scan_files, the generator: what is yielded for entry i of the walk
ScanKeeps(file) ==
    /\ file.avail # "broken_link"     \* os.path.exists follows the link
    /\ SizeOf(file.content) >= ScanMinSize
    /\ ~(StartsWith(file.name, <<".">>)
         /\ file.name \notin {<<".","h","t","a","c","c","e","s","s">>,
                              <<".","g","i","t","i","g","n","o","r","e">>})

RECURSIVE ScanRows(_, _)
ScanRows(tree, i) ==
    IF i > Len(tree) THEN <<>>
    ELSE IF ScanKeeps(tree[i])
         THEN <<[path |-> i, name |-> tree[i].name, size |-> SizeOf(tree[i].content)]>>
                  \o ScanRows(tree, i + 1)
         ELSE ScanRows(tree, i + 1)

\* the rows as pandas.read_csv gives them back from file_scan_batches.csv
ReadStaging(rows) ==
    [i \in 1..Len(rows) |-> [rows[i] EXCEPT !.name = read_csv_field(rows[i].name)]]

\* pd.read_csv(..., chunksize=n): consecutive slices of n rows
RECURSIVE Chunks(_, _)
Chunks(rows, n) ==
    IF rows = <<>> THEN <<>>
    ELSE IF Len(rows) <= n THEN <<rows>>
    ELSE <<SubSeq(rows, 1, n)>> \o Chunks(SubSeq(rows, n + 1, Len(rows)), n)

PdfChunkSize(available_mb) == Max2(1, Min2(3, available_mb \div 1000))

ClassifyChunkSize(available_mb) == Max2(3, Min2(10, available_mb \div 200))

\* validate_and_repair_pdfs, one chunk: the paths whose details are stored; a
\* NaN name makes name.lower() raise and the chunk is given up
PdfChunkPaths(chunk) ==
    IF \E i \in 1..Len(chunk) : chunk[i].name = NaN THEN {}
    ELSE {chunk[i].path : i \in {j \in 1..Len(chunk) : EndsWith(Lower(chunk[j].name), Ext_pdf)}}

ValidatedPaths(rows, available_mb) ==
    LET chunks == Chunks(rows, PdfChunkSize(available_mb))
    IN  UNION {PdfChunkPaths(chunks[k]) : k \in 1..Len(chunks)}

\* classify_and_analyze: the rows of one chunk, up to row `upto`
RECURSIVE AnalyzeRows(_, _, _, _, _)
AnalyzeRows(chunk, upto, tree, base, validation) ==
    IF upto = 0 THEN <<>>
    ELSE AnalyzeRows(chunk, upto - 1, tree, base, validation)
            \o analyze_row(chunk[upto], tree[chunk[upto].path], ParentsOf(chunk[upto].path),
                           base, validation, TRUE)

NoMemoryError == [chunk |-> 0, after |-> 0]

\* the emergency cleanup of the MemoryError handler
KeepLastResults(results) ==
    IF Len(results) > MemoryKeepLast
    THEN SubSeq(results, Len(results) - MemoryKeepLast + 1, Len(results))
    ELSE results

\* chunk k onwards; err names the chunk in which MemoryError is raised and the
\* number of rows of it that were analysed before (the rest of it is skipped)
RECURSIVE AnalyzeChunks(_, _, _, _, _, _, _)
AnalyzeChunks(chunks, k, results, err, tree, base, validation) ==
    IF k > Len(chunks) THEN results
    ELSE IF err.chunk = k
         THEN AnalyzeChunks(chunks, k + 1,
                 KeepLastResults(results \o AnalyzeRows(chunks[k], err.after, tree, base, validation)),
                 err, tree, base, validation)
         ELSE AnalyzeChunks(chunks, k + 1,
                 results \o AnalyzeRows(chunks[k], Len(chunks[k]), tree, base, validation),
                 err, tree, base, validation)

\* every result analyze_row returned during the run, kept or not
RECURSIVE AnalysedHistory(_, _, _, _, _, _)
AnalysedHistory(chunks, k, err, tree, base, validation) ==
    IF k > Len(chunks) THEN <<>>
    ELSE AnalyzeRows(chunks[k], IF err.chunk = k THEN err.after ELSE Len(chunks[k]),
                     tree, base, validation)
            \o AnalysedHistory(chunks, k + 1, err, tree, base, validation)

MemoryErrorPoints(chunks) ==
    {NoMemoryError} \cup
    UNION {{[chunk |-> k, after |-> j] : j \in 0..Len(chunks[k])} : k \in 1..Len(chunks)}

-----------------------------------------------------------------------------
(* deduplicate_files *)

\* the vectorised quality score of one row of df
QualityScore(has_ocr, is_pdf_valid, size, min_size) ==
    (IF has_ocr = "True" THEN 4 ELSE 0)
        + (IF is_pdf_valid = "True" THEN 2 ELSE 0)
        + (IF size > min_size THEN 1 ELSE 0)

\* one row of pd.concat([chunk, analysis_chunk], axis=1) with its score
MergeRow(row, an) ==
    [path |-> row.path, name |-> row.name, size |-> row.size,
     mime_type |-> an.mime_type, hash |-> an.hash,
     is_pdf_valid |-> an.is_pdf_valid, has_ocr |-> an.has_ocr,
     game_system |-> an.game_system, edition |-> an.edition,
     category |-> an.category, language |-> an.language,
     quality_score |-> QualityScore(an.has_ocr, an.is_pdf_valid, row.size, MinPdfSizeBytes)]

\* both chunks are cut to the shorter one and joined position by position
MergeChunk(chunk, analysis_chunk) ==
    [i \in 1..Min2(Len(chunk), Len(analysis_chunk)) |-> MergeRow(chunk[i], analysis_chunk[i])]

\* the test of the reduction: does the row replace the best one stored so far
Supersedes(score, best_score) == score > best_score

\* for _, row in df.iterrows(): ... best_files[h] = row.to_dict()
RECURSIVE AdmitRows(_, _)
AdmitRows(rows, best_files) ==
    IF rows = <<>> THEN best_files
    ELSE LET r == Head(rows)
             h == r.hash
         IN  IF h = NoneText THEN AdmitRows(Tail(rows), best_files)
             ELSE IF ~DictHas(best_files, h)
                     \/ Supersedes(r.quality_score, DictGet(best_files, h).quality_score)
                  THEN AdmitRows(Tail(rows), DictSet(best_files, h, r))
                  ELSE AdmitRows(Tail(rows), best_files)

\* the loop over the staging chunks; it stops at the first chunk that has no
\* analysis chunk
RECURSIVE DedupChunks(_, _, _, _)
DedupChunks(chunks, analysis_chunks, k, best_files) ==
    IF k > Len(chunks) \/ k > Len(analysis_chunks) THEN best_files
    ELSE DedupChunks(chunks, analysis_chunks, k + 1,
                     AdmitRows(MergeChunk(chunks[k], analysis_chunks[k]), best_files))

\* every row df held over all chunks, in the order they were admitted
RECURSIVE MergedRows(_, _, _)
MergedRows(chunks, analysis_chunks, k) ==
    IF k > Len(chunks) \/ k > Len(analysis_chunks) THEN <<>>
    ELSE MergeChunk(chunks[k], analysis_chunks[k]) \o MergedRows(chunks, analysis_chunks, k + 1)

SortsBefore(a, b) ==
    \/ a.quality_score > b.quality_score
    \/ a.quality_score = b.quality_score /\ a.size > b.size

\* sort_values(by=['quality_score', 'size'], ascending=False); rows with equal
\* keys keep their order
RECURSIVE SortRows(_, _)
SortRows(rows, sorted) ==
    IF rows = <<>> THEN sorted
    ELSE LET x == Head(rows)
             n == Cardinality({i \in 1..Len(sorted) : ~SortsBefore(x, sorted[i])})
         IN  SortRows(Tail(rows),
                      SubSeq(sorted, 1, n) \o <<x>> \o SubSeq(sorted, n + 1, Len(sorted)))

\* groupby('name').cumcount(); a NaN name belongs to no group
WithNameOccurrence(rows) ==
    [i \in 1..Len(rows) |->
        [path |-> rows[i].path, name |-> rows[i].name, size |-> rows[i].size,
         mime_type |-> rows[i].mime_type, hash |-> rows[i].hash,
         is_pdf_valid |-> rows[i].is_pdf_valid, has_ocr |-> rows[i].has_ocr,
         game_system |-> rows[i].game_system, edition |-> rows[i].edition,
         category |-> rows[i].category, language |-> rows[i].language,
         quality_score |-> rows[i].quality_score,
         name_occurrence |->
            IF rows[i].name = NaN THEN 0
            ELSE Cardinality({j \in 1..(i - 1) : rows[j].name = rows[i].name})]]

BestFiles(rows, results) ==
    DedupChunks(Chunks(rows, DedupChunkSize), Chunks(results, DedupChunkSize), 1, <<>>)

\* the DataFrame deduplicate_files returns, <<>> where it returns None
deduplicate_files(rows, results) ==
    LET best_files == BestFiles(rows, results)
    IN  IF results = <<>> \/ best_files = <<>> THEN <<>>
        ELSE WithNameOccurrence(
                SortRows([i \in 1..Len(best_files) |-> best_files[i][2]], <<>>))

-----------------------------------------------------------------------------
(* copy_and_index *)

\* position of the dot that starts Path.suffix, 0 when there is no suffix
SuffixStart(name) ==
    LET dots == {i \in 2..(Len(name) - 1) : name[i] = "."}
    IN  IF dots = {} THEN 0 ELSE SetMax(dots)

PathStem(name) ==
    IF SuffixStart(name) = 0 THEN name ELSE SubSeq(name, 1, SuffixStart(name) - 1)

PathSuffix(name) ==
    IF SuffixStart(name) = 0 THEN <<>> ELSE SubSeq(name, SuffixStart(name), Len(name))

\* text.replace('/', '_')
ReplaceSlash(text) == [i \in 1..Len(text) |-> IF text[i] = "/" THEN "_" ELSE text[i]]

NewFilename(row, file) ==
    IF row.name_occurrence > 0
    THEN PathStem(file.name) \o <<"_">> \o NatText(row.name_occurrence) \o PathSuffix(file.name)
    ELSE file.name

\* the destination below LIBRARY_ROOT, as the sequence of its parts
DestinationPath(row, file) ==
    <<ReplaceSlash(row.game_system)>>
        \o (IF TruthyText(row.edition) THEN <<ReplaceSlash(row.edition)>> ELSE <<>>)
        \o (IF TruthyText(row.category) THEN <<ReplaceSlash(row.category)>> ELSE <<>>)
        \o <<NewFilename(row, file)>>

IndexRow(row, file) ==
    [filename |-> NewFilename(row, file), path |-> DestinationPath(row, file),
     type |-> row.mime_type, size |-> row.size, game_system |-> ReplaceSlash(row.game_system),
     edition |-> row.edition, language |-> row.language, hash |-> row.hash]

\* batch_size of copy_and_index, 100 in the code
IndexBatchSize == 2

\* the database while the files are copied: every INSERT works, or (disk
\* full, database locked) every executemany raises
DbOutcomes == {"ok", "insert_fails"}

\* copy_and_index before its loop: nothing committed, batched, copied, counted
CopyStart ==
    [idx |-> <<>>, batch |-> <<>>, written |-> <<>>, copied_count |-> 0,
     failed_count |-> 0]

\* the loop over unique_files: a row whose source is gone counts as failed;
\* a row is copied, counted and batched, and a full batch is inserted and
\* committed; an executemany that raises is caught as that row's failure
RECURSIVE CopyRows(_, _, _, _)
CopyRows(rows, tree, db, st) ==
    IF rows = <<>> THEN st
    ELSE LET row     == Head(rows)
             file    == tree[row.path]
             copied  == [st EXCEPT
                            !.written = Append(@, [source |-> row.path,
                                                   destination |-> DestinationPath(row, file),
                                                   content |-> file.content]),
                            !.copied_count = @ + 1,
                            !.batch = Append(@, IndexRow(row, file))]
             flushed == IF Len(copied.batch) < IndexBatchSize THEN copied
                        ELSE IF db = "ok"
                             THEN [copied EXCEPT !.idx = @ \o copied.batch, !.batch = <<>>]
                        ELSE [copied EXCEPT !.failed_count = @ + 1]
         IN  IF file.avail # "ok"
             THEN CopyRows(Tail(rows), tree, db, [st EXCEPT !.failed_count = @ + 1])
             ELSE CopyRows(Tail(rows), tree, db, flushed)

\* "Process remaining batch": an executemany that raises here ends
\* copy_and_index with the batch unwritten
InsertRemaining(st, db) ==
    IF st.batch # <<>> /\ db = "ok"
    THEN [st EXCEPT !.idx = @ \o st.batch, !.batch = <<>>]
    ELSE st

-----------------------------------------------------------------------------
(* The knowledge store *)

Sys_ab == <<"A","b">>
Ed_1e == <<"1","e">>
Cat_module == <<"M","o","d">>

NoKnowledge == [present |-> FALSE, products |-> <<>>, alts |-> <<>>]

-----------------------------------------------------------------------------
(* The scenarios at rest *)

\* no PDF has been handed to validate_and_repair_pdf
RepairIdle ==
    /\ pdf_case = <<>>
    /\ repaired = <<>>
    /\ source_tree = {}
    /\ rpc = "idle"

\* no ResourceManager has been asked for a worker count
WorkersIdle ==
    /\ mem = <<>>
    /\ now = 0
    /\ max_workers = 0
    /\ min_free_mb = 0
    /\ _cached_worker_count = 0
    /\ _last_check_time = 0
    /\ workers = 0
    /\ wpc = "idle"

\* nothing has been logged
LogIdle ==
    /\ log_file = {}
    /\ _error_counts = {}

\* run_with_timeout has not been called
TimeoutIdle ==
    /\ proc = "none"
    /\ queue = <<>>
    /\ timed = <<>>
    /\ tpc = "idle"

\* build_library is not running
PhasesIdle ==
    /\ children = {}
    /\ waited_children = 0
    /\ phase = "idle"

\* wait_for_free_ram has not been called
WaitIdle ==
    /\ wait_args = <<>>
    /\ waited = 0
    /\ polls = 0
    /\ fpc = "idle"

LateIdle == LogIdle /\ TimeoutIdle /\ PhasesIdle /\ WaitIdle

\* build() has not been called
BuildIdle ==
    /\ copied_count = 0
    /\ failed_count = 0
    /\ worker_queries = 0
    /\ run = 0
    /\ first_index = <<>>

\* a run whose source root is a directory and whose library_root can be written
UsableConfig == [source_is_dir |-> TRUE, library_root_ok |-> TRUE]

\* source_is_dir: os.path.isdir of the source root; library_root_ok: the
\* parent of library_root exists and library_root can be created and written
Configs == [source_is_dir : BOOLEAN, library_root_ok : BOOLEAN]

-----------------------------------------------------------------------------
(* build(): scan_files, validate_and_repair_pdfs, classify_and_analyze,
   deduplicate_files, copy_and_index, in this order *)

Init ==
    /\ fs \in SeqsUpTo(FileKinds, MaxFiles)
    /\ staged = <<>>
    /\ pdf_validation = <<>>
    /\ analysis_results = <<>>
    /\ analysed = <<>>
    /\ unique_files = <<>>
    /\ index = <<>>
    /\ copies = <<>>
    /\ pc = "start"
    /\ kb = NoKnowledge
    /\ query = <<>>
    /\ cls = <<>>
    /\ row_result = <<>>
    /\ cpc = "idle"
    /\ config \in Configs
    /\ copied_count = 0
    /\ failed_count = 0
    /\ worker_queries = 0
    /\ run = 1
    /\ first_index = <<>>
    /\ RepairIdle
    /\ WorkersIdle
    /\ LateIdle

scan_files ==
    /\ pc = "start"
    /\ staged' = IF config.source_is_dir THEN ReadStaging(ScanRows(fs, 1)) ELSE <<>>
    /\ pc' = "scanned"
    /\ UNCHANGED <<auxVars, buildVars, config, fs, pdf_validation, analysis_results, analysed, unique_files,
                   index, copies, kb, query, cls, row_result, cpc>>

\* get_adjusted_worker_count is defined and never called, and every batch runs
\* with max_workers = 1: no get_safe_worker_count query is made
validate_and_repair_pdfs ==
    /\ pc = "scanned"
    /\ pdf_validation' = [p \in ValidatedPaths(staged, AvailableMb) |-> fs[p].pdf]
    /\ pc' = "validated"
    /\ UNCHANGED <<auxVars, buildVars, config, fs, staged, analysis_results, analysed, unique_files,
                   index, copies, kb, query, cls, row_result, cpc>>

\* the rows of a chunk are analysed one after the other in this process, and
\* get_safe_worker_count is not called
classify_and_analyze ==
    /\ pc = "validated"
    /\ LET chunks == Chunks(staged, ClassifyChunkSize(AvailableMb))
       IN  \E err \in MemoryErrorPoints(chunks) :
              /\ analysis_results' = AnalyzeChunks(chunks, 1, <<>>, err, fs, kb, pdf_validation)
              /\ analysed' = AnalysedHistory(chunks, 1, err, fs, kb, pdf_validation)
    /\ pc' = "analysed"
    /\ UNCHANGED <<auxVars, buildVars, config, fs, staged, pdf_validation, unique_files,
                   index, copies, kb, query, cls, row_result, cpc>>

deduplicate ==
    /\ pc = "analysed"
    /\ unique_files' = deduplicate_files(staged, analysis_results)
    /\ pc' = "deduplicated"
    /\ UNCHANGED <<auxVars, buildVars, config, fs, staged, pdf_validation, analysis_results, analysed,
                   index, copies, kb, query, cls, row_result, cpc>>

copy_and_index ==
    /\ pc = "deduplicated"
    /\ \E db \in DbOutcomes :
          LET done == IF unique_files = <<>> \/ ~config.library_root_ok
                      THEN [CopyStart EXCEPT !.idx = index]
                      ELSE InsertRemaining(CopyRows(unique_files, fs, db, CopyStart), db)
          IN  /\ index' = done.idx
              /\ copies' = done.written
              /\ copied_count' = done.copied_count
              /\ failed_count' = done.failed_count
    /\ pc' = "done"
    /\ UNCHANGED <<auxVars, worker_queries, run, first_index, config, fs, staged,
                   pdf_validation, analysis_results, analysed, unique_files, kb, query,
                   cls, row_result, cpc>>

Next ==
    \/ scan_files
    \/ validate_and_repair_pdfs
    \/ classify_and_analyze
    \/ deduplicate
    \/ copy_and_index

Spec == Init /\ [][Next]_vars

-----------------------------------------------------------------------------
(* build() run a second time on the same source tree, knowledge store and
   library_root *)

\* at most this many entries in the source tree that is built twice
MaxRerunFiles == 2

InitRerun ==
    /\ fs \in SeqsUpTo(FileKinds, MaxRerunFiles)
    /\ staged = <<>>
    /\ pdf_validation = <<>>
    /\ analysis_results = <<>>
    /\ analysed = <<>>
    /\ unique_files = <<>>
    /\ index = <<>>
    /\ copies = <<>>
    /\ pc = "start"
    /\ kb = NoKnowledge
    /\ query = <<>>
    /\ cls = <<>>
    /\ row_result = <<>>
    /\ cpc = "idle"
    /\ config \in Configs
    /\ copied_count = 0
    /\ failed_count = 0
    /\ worker_queries = 0
    /\ run = 1
    /\ first_index = <<>>
    /\ RepairIdle
    /\ WorkersIdle
    /\ LateIdle

\* the program is started again: a new LibraryBuilder with empty
\* analysis_results and pdf_validation; the source tree, the configuration and
\* library_index.sqlite are what the first run left
build_again ==
    /\ pc = "done"
    /\ run = 1
    /\ run' = 2
    /\ first_index' = index
    /\ staged' = <<>>
    /\ pdf_validation' = <<>>
    /\ analysis_results' = <<>>
    /\ analysed' = <<>>
    /\ unique_files' = <<>>
    /\ copies' = <<>>
    /\ copied_count' = 0
    /\ failed_count' = 0
    /\ pc' = "start"
    /\ UNCHANGED <<auxVars, worker_queries, config, fs, index, kb, query, cls,
                   row_result, cpc>>

NextRerun ==
    \/ Next
    \/ build_again

SpecRerun == InitRerun /\ [][NextRerun]_vars

\* what an index assigns: per destination path (folders of the game system,
\* edition and category, file name with its ordinal suffix) the content hash,
\* the game system and the edition
Assignments(idx) ==
    {<<idx[i].path, idx[i].hash, idx[i].game_system, idx[i].edition>> : i \in 1..Len(idx)}

\* C21: build() run twice on an unchanged source tree leaves, after the
\* second run, an index with the same assignments of game system, edition,
\* category, hash and suffixed file name as after the first run.
C21_SecondBuildGivesTheSameIndex ==
    (run = 2 /\ pc = "done") => Assignments(index) = Assignments(first_index)

-----------------------------------------------------------------------------
(* Properties of the pipeline *)

Deduplicated == pc \in {"deduplicated", "done"}

\* the analysis columns of a row of unique_files
AnalysisOf(row) ==
    [mime_type |-> row.mime_type, hash |-> row.hash,
     is_pdf_valid |-> row.is_pdf_valid, has_ocr |-> row.has_ocr,
     game_system |-> row.game_system, edition |-> row.edition,
     category |-> row.category, language |-> row.language]

StagedRowOf(path) == staged[CHOOSE i \in 1..Len(staged) : staged[i].path = path]

OwnAnalysis(path) ==
    analyze_row(StagedRowOf(path), fs[path], ParentsOf(path), kb, pdf_validation, TRUE)

\* C1: every record deduplicate_files hands to copy_and_index pairs a source
\* path with the analysis result computed from that same file, and the hash of
\* an index row is the content hash of the file that was copied for that row.
C1_RecordsPairPathWithOwnAnalysis ==
    /\ Deduplicated =>
          \A i \in 1..Len(unique_files) :
              OwnAnalysis(unique_files[i].path) = <<AnalysisOf(unique_files[i])>>
    /\ pc = "done" =>
          \A i \in 1..Len(index) : index[i].hash = Sha256(copies[i].content)

\* C2: no two index rows carry the same content hash; of the files sharing one
\* hash at most one winner is kept and at most one copy of those bytes is
\* written to the destination.
C2_OneRowAndOneCopyPerHash ==
    /\ Deduplicated =>
          \A i, j \in 1..Len(unique_files) :
              unique_files[i].hash = unique_files[j].hash => i = j
    /\ pc = "done" =>
          /\ \A i, j \in 1..Len(index) : index[i].hash = index[j].hash => i = j
          /\ \A i, j \in 1..Len(copies) : copies[i].content = copies[j].content => i = j

\* the staged files whose analysis result is among the results deduplicated
ScoredFiles ==
    {staged[i].path : i \in {j \in 1..Len(staged) :
        /\ OwnAnalysis(staged[j].path) # <<>>
        /\ \E k \in 1..Len(analysis_results) :
              analysis_results[k] = OwnAnalysis(staged[j].path)[1]}}

\* the quality score of a file: 4 for extractable text, 2 for a valid
\* document, 1 for a size above the configured minimum
FileScore(path) ==
    LET an == OwnAnalysis(path)[1]
    IN  (IF an.has_ocr = "True" THEN 4 ELSE 0)
            + (IF an.is_pdf_valid = "True" THEN 2 ELSE 0)
            + (IF SizeOf(fs[path].content) > MinPdfSizeBytes THEN 1 ELSE 0)

\* C3: of every set of files sharing a content hash, the record retained has
\* the maximal quality score of that set.
C3_WinnerHasMaximalScore ==
    Deduplicated =>
        \A i \in 1..Len(unique_files) :
            LET same == {p \in ScoredFiles : OwnAnalysis(p)[1].hash = unique_files[i].hash}
            IN  same # {} =>
                   unique_files[i].quality_score = SetMax({FileScore(p) : p \in same})

\* the rows admitted to the hash -> best table, in admission order
Admitted ==
    MergedRows(Chunks(staged, DedupChunkSize), Chunks(analysis_results, DedupChunkSize), 1)

\* C4: among records of one hash with equal quality scores the one of larger
\* size is kept, and among equal sizes the shorter or earlier-discovered path.
C4_TiesKeepLargerThenEarlier ==
    Deduplicated =>
        \A i \in 1..Len(unique_files) : \A k \in 1..Len(Admitted) :
            LET w == unique_files[i]
                r == Admitted[k]
            IN  (r.hash = w.hash /\ r.quality_score = w.quality_score) =>
                   /\ w.size >= r.size
                   /\ w.size = r.size =>
                         \/ w.path <= r.path
                         \/ Len(fs[w.path].name) < Len(fs[r.path].name)

Injections(n) == {f \in [1..n -> 1..n] : \A a, b \in 1..n : f[a] = f[b] => a = b}

\* C5: the winner per hash is the same for every order in which the same
\* records are admitted.
C5_WinnerIndependentOfArrivalOrder ==
    Deduplicated =>
        \A f \in Injections(Len(Admitted)) :
            LET permuted == AdmitRows([k \in 1..Len(Admitted) |-> Admitted[f[k]]], <<>>)
                kept     == AdmitRows(Admitted, <<>>)
            IN  \A k \in 1..Len(kept) : DictGet(permuted, kept[k][1]) = kept[k][2]

\* C6: every content hash classify_and_analyze computed for a staged file has
\* exactly one winner in what deduplicate_files returns.
C6_EveryComputedHashHasOneWinner ==
    Deduplicated =>
        \A a \in 1..Len(analysed) :
            Cardinality({i \in 1..Len(unique_files) : unique_files[i].hash = analysed[a].hash}) = 1

-----------------------------------------------------------------------------
(* One classify call and one analyze_row call on the same file *)

\* at most this many rows in the products table
MaxProducts == 2

\* at most this many directories between the root and the file
MaxDirs == 2

Row_a ==
    [code |-> <<"a">>, title |-> <<"Z","q">>, system |-> <<"X">>,
     edition |-> Ed_1e, category |-> Cat_module]

Row_ab ==
    [code |-> <<"A","-","b">>, title |-> <<"b","a">>, system |-> <<"Y","y">>,
     edition |-> NoneText, category |-> NoneText]

\* a title of punctuation only: its normalised key is the empty text
Row_dash ==
    [code |-> NoneText, title |-> <<"-">>, system |-> <<"W">>,
     edition |-> NoneText, category |-> Cat_module]

ProductRows == {Row_a, Row_ab, Row_dash}

Alt_b1 ==
    [alt_title |-> <<"b","1">>, system |-> <<"V">>, edition |-> Ed_1e, category |-> NoneText]

KnowledgeBases ==
    {NoKnowledge}
    \cup {[present |-> TRUE, products |-> p, alts |-> <<>>] : p \in SeqsUpTo(ProductRows, MaxProducts)}
    \cup {[present |-> TRUE, products |-> <<Row_ab>>, alts |-> <<Alt_b1>>]}

Stems == {<<>>, <<"a">>, <<"b">>, <<"a","b">>, <<"A","_","B">>, <<"b","a","b">>, <<"q">>}

Filenames == {s \o e : s \in Stems, e \in {<<>>, Ext_pdf, Ext_png}} \cup {N_NA}

DirNames == {<<"X">>, <<"y">>}

ParentLists == {<<<<"/">>>> \o d : d \in SeqsUpTo(DirNames, MaxDirs)}

MimeTypes == {Mime_png, Mime_pdf, Mime_unknown}

Queries == [filename : Filenames, parents : ParentLists, mime_type : MimeTypes]

InitClassify ==
    /\ fs = <<>>
    /\ staged = <<>>
    /\ pdf_validation = <<>>
    /\ analysis_results = <<>>
    /\ analysed = <<>>
    /\ unique_files = <<>>
    /\ index = <<>>
    /\ copies = <<>>
    /\ pc = "idle"
    /\ kb \in KnowledgeBases
    /\ query \in Queries
    /\ cls = <<>>
    /\ row_result = <<>>
    /\ cpc = "ready"
    /\ config = UsableConfig
    /\ BuildIdle
    /\ LateIdle
    /\ RepairIdle
    /\ WorkersIdle

classify_call ==
    /\ cpc = "ready"
    /\ cls' = classify(kb, query.filename, query.parents, query.mime_type)
    /\ cpc' = "classified"
    /\ UNCHANGED <<auxVars, pipeVars, kb, query, row_result>>

\* the file of the query is in place and readable; classifier_ok is FALSE
\* when constructing or calling the Classifier raises inside analyze_row
analyze_row_call ==
    /\ cpc = "classified"
    /\ \E classifier_ok \in BOOLEAN :
          row_result' =
              analyze_row([path |-> 1, name |-> read_csv_field(query.filename), size |-> SizeOf("c2")],
                          [name |-> query.filename, mime |-> query.mime_type, content |-> "c2",
                           pdf |-> <<"True", "True">>, avail |-> "ok"],
                          query.parents, kb, <<>>, classifier_ok)
    /\ cpc' = "analysed"
    /\ UNCHANGED <<auxVars, pipeVars, kb, query, cls>>

NextClassify == classify_call \/ analyze_row_call

SpecClassify == InitClassify /\ [][NextClassify]_vars

-----------------------------------------------------------------------------
(* Properties of classify and of the classification analyze_row stores *)

Classified == cpc \in {"classified", "analysed"}

Cache == product_cache(kb)

Keywords == path_keywords(kb)

CleanName == normalize_text(query.filename)

\* the cache keys that are substrings of the normalised filename
ExactKeys == {k \in {Cache[i][1] : i \in 1..Len(Cache)} : Contains(CleanName, k)}

\* the cache keys within the fuzzy threshold of the normalised filename
FuzzyKeys ==
    {k \in {Cache[i][1] : i \in 1..Len(Cache)} : partial_ratio(CleanName, k) >= FuzzyThreshold}

\* the systems some parent directory name leads to, exactly or fuzzily
PathSystems ==
    {Keywords[i][2] : i \in {j \in 1..Len(Keywords) :
        \E p \in 1..Len(query.parents) :
            \/ normalize_text(query.parents[p]) = Keywords[j][1]
            \/ partial_ratio(normalize_text(query.parents[p]), Keywords[j][1]) >= FuzzyThreshold}}

MimeBucket == _classify_by_mimetype(query.mime_type)

NoNameMatch == ExactKeys = {} /\ FuzzyKeys = {}

MiscellaneousTriple == <<Miscellaneous, NoneText, NoneText>>

StoredTriple == <<row_result[1].game_system, row_result[1].edition, row_result[1].category>>

\* C7: classify is total: for every filename (the empty one included), path
\* and MIME type string it returns a 3-tuple whose first component is not
\* None, the Miscellaneous triple when no tier matches; every analysis result
\* therefore carries a non-null game_system.
C7_ClassifyIsTotalAndNonNull ==
    /\ Classified =>
          /\ Len(cls) = 3
          /\ cls[1] # NoneText
          /\ (NoNameMatch /\ PathSystems = {} /\ MimeBucket = <<>>) => cls = MiscellaneousTriple
    /\ (cpc = "analysed" /\ row_result # <<>>) => row_result[1].game_system # NoneText

C7_Witness ==
    /\ cpc = "analysed"
    /\ NoNameMatch /\ PathSystems = {} /\ MimeBucket = <<>>
    /\ cls = MiscellaneousTriple
    /\ row_result # <<>>
    /\ row_result[1].game_system = Miscellaneous

\* C8: the tiers are consulted in a fixed order and the first that matches
\* determines the triple: exact filename, fuzzy filename, parent directories,
\* MIME bucket, default.
C8_FirstMatchingTierWins ==
    Classified =>
       /\ ExactKeys # {} => \E k \in ExactKeys : cls = DictGet(Cache, k)
       /\ (ExactKeys = {} /\ FuzzyKeys # {}) => \E k \in FuzzyKeys : cls = DictGet(Cache, k)
       /\ (NoNameMatch /\ PathSystems # {}) =>
              \E system \in PathSystems : cls = <<system, FromFolder, Heuristic>>
       /\ (NoNameMatch /\ PathSystems = {} /\ MimeBucket # <<>>) => cls = MimeBucket
       /\ (NoNameMatch /\ PathSystems = {} /\ MimeBucket = <<>>) => cls = MiscellaneousTriple

\* a fuzzy filename match wins although a directory and the MIME type match too
C8_Witness ==
    /\ Classified
    /\ ExactKeys = {} /\ FuzzyKeys # {}
    /\ PathSystems # {} /\ MimeBucket # <<>>
    /\ \E k \in FuzzyKeys : cls = DictGet(Cache, k)
    /\ cls[2] # FromFolder /\ cls # MimeBucket

\* C9: when a normalised cache key is a substring of the normalised filename,
\* the result is the tuple stored under a longest such key, not a fuzzy or a
\* path-based one.
C9_LongestSubstringKeyWins ==
    (Classified /\ ExactKeys # {}) =>
       \E k \in ExactKeys :
          /\ \A other \in ExactKeys : Len(other) <= Len(k)
          /\ cls = DictGet(Cache, k)

\* a shorter key inserted earlier and a longer key both match; the longer wins
C9_Witness ==
    /\ Classified
    /\ \E short, long \in ExactKeys :
          /\ Len(short) < Len(long)
          /\ \A other \in ExactKeys : Len(other) <= Len(long)
          /\ DictGet(Cache, short) # DictGet(Cache, long)
          /\ \E i, j \in 1..Len(Cache) : i < j /\ Cache[i][1] = short /\ Cache[j][1] = long
          /\ cls = DictGet(Cache, long)

\* C10: a file of MIME type image/png matching no cache key and lying under no
\* keyword directory is classified ("Media", "Images", None), and that is the
\* classification attached to its analysis result.
C10_ImageWithoutMatchIsMediaImages ==
    (cpc = "analysed" /\ query.mime_type = Mime_png /\ NoNameMatch /\ PathSystems = {}
         /\ row_result # <<>>) =>
       /\ cls = <<Media, Images, NoneText>>
       /\ StoredTriple = <<Media, Images, NoneText>>

-----------------------------------------------------------------------------
(* Validation and repair of one PDF (src/src/librarian.py) *)

Name_apple_pdf == <<".","_">> \o Name_a_pdf

RepairedSuffix == <<".","r","e","p","a","i","r","e","d">> \o Ext_pdf

\* a PDF as the tools see it: the first bytes, what fitz.open does with it
\* ("pages": opens with page_count > 0, "empty": opens with no page,
\* "raises"), whether a page yields text, what qpdf --check says, and whether
\* PyPDF2 or pdfminer find text
PdfFile(name, header, fitz, text, qpdf_ok, fallback_text) ==
    [name |-> name, header |-> header, fitz |-> fitz, text |-> text,
     qpdf_ok |-> qpdf_ok, fallback_text |-> fallback_text]

PdfFiles ==
    {PdfFile(Name_a_pdf, "pdf", "pages", "True", "True", "True"),
     PdfFile(Name_a_pdf, "pdf", "pages", "False", "True", "False"),
     PdfFile(Name_a_pdf, "pdf", "raises", "False", "False", "False"),
     PdfFile(Name_a_pdf, "pdf", "raises", "False", "False", "True"),
     PdfFile(Name_a_pdf, "pdf", "raises", "False", "True", "False"),
     PdfFile(Name_a_pdf, "pdf", "empty", "False", "False", "False"),
     PdfFile(Name_a_pdf, "other", "raises", "False", "False", "False"),
     PdfFile(Name_a_pdf, "unreadable", "raises", "False", "False", "False"),
     PdfFile(Name_apple_pdf, "pdf", "pages", "True", "True", "True")}

\* librarian.get_pdf_details: <<is_valid, has_text>>
get_pdf_details(file) ==
    IF StartsWith(file.name, <<".","_">>) THEN <<"False", "False">>
    ELSE IF file.header # "pdf" THEN <<"False", "False">>
    ELSE IF file.fitz = "pages" THEN <<"True", file.text>>
    ELSE IF file.fitz = "empty" THEN <<"False", "False">>
    ELSE <<file.qpdf_ok, file.fallback_text>>

\* how a call through run_with_timeout ends: the function returns, or the
\* subprocess is terminated, leaves nothing on the queue, or raises
RunEndings == {"returns", "TimeoutError", "RuntimeError", "Exception"}

\* run_with_timeout: <<success, result or exception>>
run_with_timeout(ending, result) ==
    IF ending = "returns" THEN <<TRUE, result>> ELSE <<FALSE, ending>>

\* the strategies of repair_pdf, in the order they are tried
Strategies ==
    <<"qpdf --repair", "qpdf --linearize", "PyMuPDF", "Ghostscript",
      "pdftocairo", "mutool clean", "pdfcpu">>

\* what one strategy does to the output path: nothing usable, a file that
\* get_pdf_details accepts, or a file that it rejects
StrategyOutcomes == {"fails", "valid_output", "invalid_output"}

OutputFile(file, outcome) ==
    IF outcome = "valid_output"
    THEN PdfFile(file.name \o RepairedSuffix, "pdf", "pages", "True", "True", "True")
    ELSE PdfFile(file.name \o RepairedSuffix, "pdf", "raises", "False", "False", "False")

\* repair_pdf: the index of the first strategy that leaves an output, 0 if none
FirstOutput(outcomes) ==
    IF \E i \in 1..Len(outcomes) : outcomes[i] # "fails"
    THEN CHOOSE i \in 1..Len(outcomes) :
            outcomes[i] # "fails" /\ \A j \in 1..(i - 1) : outcomes[j] = "fails"
    ELSE 0

\* repair_pdf returns True as soon as one strategy has left an output file
repair_pdf(outcomes) == FirstOutput(outcomes) # 0

\* the output of repair_pdf accepted as it is, without a second get_pdf_details
validate_and_repair_pdf_unchecked(case) ==
    LET file      == case.file
        failed    == [path |-> "original", is_valid |-> "False", has_text |-> "False"]
        details   == run_with_timeout(case.validate, get_pdf_details(file))
        repair    == run_with_timeout(case.repair, repair_pdf(case.outcomes))
    IN  IF StartsWith(file.name, <<".","_">>) THEN failed @@ [written |-> FALSE]
        ELSE IF ~details[1] THEN failed @@ [written |-> FALSE]
        ELSE IF details[2][1] = "True"
             THEN [path |-> "original", is_valid |-> "True", has_text |-> details[2][2],
                   written |-> FALSE]
        ELSE IF file.header # "pdf" THEN failed @@ [written |-> FALSE]
        ELSE IF ~repair[1] THEN failed @@ [written |-> FALSE]
        ELSE IF repair[2]
             THEN [path |-> "repaired", is_valid |-> "True", has_text |-> "True",
                   written |-> TRUE]
        ELSE failed @@ [written |-> FALSE]

\* validate_and_repair_pdf: the path returned ("original" or "repaired"),
\* is_valid, has_text, and whether <path>.repaired.pdf is left on disk
validate_and_repair_pdf(case) ==
    LET file      == case.file
        failed    == [path |-> "original", is_valid |-> "False", has_text |-> "False"]
        details   == run_with_timeout(case.validate, get_pdf_details(file))
        repair    == run_with_timeout(case.repair, repair_pdf(case.outcomes))
        k         == FirstOutput(case.outcomes)
        output    == OutputFile(file, case.outcomes[k])
        recheck   == run_with_timeout(case.revalidate, get_pdf_details(output))
    IN  IF StartsWith(file.name, <<".","_">>) THEN failed @@ [written |-> FALSE]
        ELSE IF ~details[1] THEN failed @@ [written |-> FALSE]
        ELSE IF details[2][1] = "True"
             THEN [path |-> "original", is_valid |-> "True", has_text |-> details[2][2],
                   written |-> FALSE]
        ELSE IF file.header # "pdf" THEN failed @@ [written |-> FALSE]
        ELSE IF ~repair[1] THEN failed @@ [written |-> FALSE]
        ELSE IF repair[2] /\ recheck[1] /\ recheck[2][1] = "True"
             THEN [path |-> "repaired", is_valid |-> "True", has_text |-> recheck[2][2],
                   written |-> TRUE]
        ELSE failed @@ [written |-> repair[2]]

\* one record of log_error: the error type and the path it is about
ErrorRecord(error_type, file_path) == [error_type |-> error_type, file_path |-> file_path]

\* the log_error calls of librarian.get_pdf_details on a file at `path`; a
\* file that opens with no page is reported invalid without any record
DetailsErrors(file, path) ==
    IF StartsWith(file.name, <<".","_">>) THEN {ErrorRecord("SKIPPED_APPLEDOUBLE", path)}
    ELSE IF file.header = "other" THEN {ErrorRecord("SKIPPED_INVALID_PDF_HEADER", path)}
    ELSE IF file.header # "pdf" THEN {ErrorRecord("HEADER_READ_ERROR", path)}
    ELSE IF file.fitz = "raises"
         THEN {ErrorRecord("MUPDF_OPEN_ERROR", path)}
                 \cup (IF file.qpdf_ok = "False" THEN {ErrorRecord("QPDF_CHECK_ERROR", path)}
                       ELSE {})
    ELSE {}

\* the log_error calls of one validate_and_repair_pdf, those of its
\* get_pdf_details and repair_pdf subprocesses included: a strategy whose
\* tool ends with a non-zero return code leaves no record, the strategy that
\* leaves an output notes it, and a repair that no strategy achieves is only
\* appended to the list failed_pdf_repairs of the process that runs the call
LoggedErrors(case) ==
    LET file    == case.file
        details == run_with_timeout(case.validate, get_pdf_details(file))
        repair  == run_with_timeout(case.repair, repair_pdf(case.outcomes))
        k       == FirstOutput(case.outcomes)
        output  == OutputFile(file, case.outcomes[k])
        recheck == run_with_timeout(case.revalidate, get_pdf_details(output))
        first   == DetailsErrors(file, "original")
    IN  IF StartsWith(file.name, <<".","_">>) THEN {}
        ELSE IF ~details[1] THEN {ErrorRecord("PDF_VALIDATION_TIMEOUT", "original")}
        ELSE IF details[2][1] = "True" THEN first
        ELSE IF file.header # "pdf" THEN first
        ELSE IF ~repair[1] THEN first \cup {ErrorRecord("PDF_REPAIR_TIMEOUT", "original")}
        ELSE IF repair[2]
             THEN first \cup {ErrorRecord(Strategies[k], "original")}
                     \cup (IF recheck[1] THEN DetailsErrors(output, "repaired") ELSE {})
                     \cup (IF recheck[1] /\ recheck[2][1] = "True" THEN {}
                           ELSE {ErrorRecord("PDF_REPAIR_INVALID", "repaired")})
        ELSE first

RepairCases ==
    [file : PdfFiles,
     outcomes : [1..Len(Strategies) -> StrategyOutcomes],
     validate : {"returns"}, repair : {"returns"}, revalidate : {"returns"}]
    \cup [file : PdfFiles,
          outcomes : {[i \in 1..Len(Strategies) |-> IF i = 2 THEN "valid_output" ELSE "fails"]},
          validate : RunEndings, repair : {"returns", "TimeoutError"},
          revalidate : {"returns", "TimeoutError", "Exception"}]

InitRepair ==
    /\ fs = <<>>
    /\ staged = <<>>
    /\ pdf_validation = <<>>
    /\ analysis_results = <<>>
    /\ analysed = <<>>
    /\ unique_files = <<>>
    /\ index = <<>>
    /\ copies = <<>>
    /\ pc = "idle"
    /\ config = UsableConfig
    /\ BuildIdle
    /\ LateIdle
    /\ kb = NoKnowledge
    /\ query = <<>>
    /\ cls = <<>>
    /\ row_result = <<>>
    /\ cpc = "idle"
    /\ WorkersIdle
    /\ pdf_case \in RepairCases
    /\ repaired = <<>>
    /\ source_tree = {"original"}
    /\ rpc = "ready"

\* the call runs in a worker process of the ProcessPoolExecutor: log_error
\* appends to librarian_run.log and fills the _error_counts of that worker,
\* not the one of the orchestrating process
validate_and_repair_pdf_call ==
    /\ rpc = "ready"
    /\ log_file' = log_file \cup LoggedErrors(pdf_case)
    /\ LET result == validate_and_repair_pdf(pdf_case)
       IN  /\ repaired' = [path |-> result.path, is_valid |-> result.is_valid,
                           has_text |-> result.has_text]
           /\ source_tree' = IF result.written THEN source_tree \cup {"repaired"}
                             ELSE source_tree
    /\ rpc' = "returned"
    /\ UNCHANGED <<pipeVars, kb, clsVars, workerVars, pdf_case, _error_counts,
                   timeoutVars, phaseVars, waitVars>>

NextRepair == validate_and_repair_pdf_call

SpecRepair == InitRepair /\ [][NextRepair]_vars

-----------------------------------------------------------------------------
(* Properties of validate_and_repair_pdf *)

Returned == rpc = "returned"

\* the validation of the original came back and said "not valid"
FoundInvalid ==
    /\ ~StartsWith(pdf_case.file.name, <<".","_">>)
    /\ pdf_case.validate = "returns"
    /\ get_pdf_details(pdf_case.file)[1] = "False"

\* the repair is attempted and each call through run_with_timeout returns
RepairRuns ==
    /\ FoundInvalid
    /\ pdf_case.file.header = "pdf"
    /\ pdf_case.repair = "returns"
    /\ pdf_case.revalidate = "returns"

\* the file the cascade left at <path>.repaired.pdf
LeftOutput == OutputFile(pdf_case.file, pdf_case.outcomes[FirstOutput(pdf_case.outcomes)])

\* C11: a repaired path is returned only when the repaired file itself passes
\* get_pdf_details, and then with is_valid true and the repaired file's
\* has_text; a PDF found invalid whose repair is not accepted comes back as
\* the original path with is_valid false.
C11_AcceptedRepairIsValid ==
    Returned =>
       /\ repaired.path = "repaired" =>
             /\ FoundInvalid
             /\ FirstOutput(pdf_case.outcomes) # 0
             /\ get_pdf_details(LeftOutput)[1] = "True"
             /\ repaired.is_valid = "True"
             /\ repaired.has_text = get_pdf_details(LeftOutput)[2]
       /\ (FoundInvalid /\ repaired.path # "repaired") =>
             (repaired.path = "original" /\ repaired.is_valid = "False")

\* the first strategy fails, the second leaves a file that validates
C11_Witness ==
    /\ Returned
    /\ RepairRuns
    /\ pdf_case.outcomes[1] = "fails"
    /\ pdf_case.outcomes[2] = "valid_output"
    /\ repaired.path = "repaired"
    /\ repaired.is_valid = "True"

\* C12: the cascade goes on to the next strategy when one fails or leaves an
\* output that does not validate, and ends at the first output the validator
\* confirms: an invalid PDF that some strategy repairs is returned valid, under
\* the repaired path.
C12_CascadeEndsAtFirstConfirmedOutput ==
    (Returned /\ RepairRuns /\ \E i \in 1..Len(Strategies) : pdf_case.outcomes[i] = "valid_output")
       => (repaired.path = "repaired" /\ repaired.is_valid = "True")

\* C19: nothing is created, changed or removed under a source root: after the
\* validation and repair of a PDF its directory holds what it held before.
C19_SourceTreeUnchanged ==
    rpc # "idle" => source_tree = {"original"}

-----------------------------------------------------------------------------
(* Properties of the pipeline: degraded PDFs *)

IsPdf(file) == TruthyText(file.name) /\ EndsWith(Lower(file.name), Ext_pdf)

\* the staged PDFs that get_pdf_details finds invalid
InvalidPdfs == {i \in 1..Len(fs) : ScanKeeps(fs[i]) /\ IsPdf(fs[i]) /\ fs[i].pdf[1] = "False"}

\* C13: a PDF that fails validation is retained as degraded: it gets an
\* analysis result, its quality score has neither the text bonus (4) nor the
\* validity bonus (2), and the file is copied and indexed when no other file
\* shares its hash; it is not left out of the output for being invalid.
C13_InvalidPdfRetainedAsDegraded ==
    /\ pc \in {"analysed", "deduplicated", "done"} =>
          \A i \in InvalidPdfs :
             \E k \in 1..Len(analysed) :
                analysed[k].hash = Sha256(fs[i].content) /\ analysed[k].is_pdf_valid = "False"
    /\ Deduplicated =>
          \A k \in 1..Len(unique_files) :
             unique_files[k].is_pdf_valid = "False" => unique_files[k].quality_score <= 1
    /\ pc = "done" =>
          \A i \in InvalidPdfs :
             (\A j \in 1..Len(fs) : fs[j].content = fs[i].content => j = i) =>
                 /\ \E k \in 1..Len(index) : index[k].hash = Sha256(fs[i].content)
                 /\ \E k \in 1..Len(copies) : copies[k].source = i

-----------------------------------------------------------------------------
(* Properties of the pipeline: scan, configuration, file names *)

Scanned == pc # "start" /\ pc # "idle"

IsStaged(i) == \E k \in 1..Len(staged) : staged[k].path = i

\* the walk cannot reach the bytes of entry i at scan time
Unreadable(file) == file.avail \in {"broken_link", "denied"}

\* C17: a broken symlink or an unreadable file gives no staging row and does
\* not stop the scan: every other entry of the walk that passes the size and
\* name filters is staged.
C17_ScanSkipsUnreadableAndGoesOn ==
    (Scanned /\ config.source_is_dir) =>
       \A i \in 1..Len(fs) :
          /\ Unreadable(fs[i]) => ~IsStaged(i)
          /\ (~Unreadable(fs[i]) /\ SizeOf(fs[i].content) >= ScanMinSize) => IsStaged(i)

\* C18: with a library_root that cannot be used, or without a valid source
\* root, the run stops before any processing: nothing is scanned, validated,
\* hashed or classified.
C18_FatalConfigurationAbortsFirst ==
    (~config.library_root_ok \/ ~config.source_is_dir) =>
       /\ staged = <<>>
       /\ pdf_validation = <<>>
       /\ analysed = <<>>

\* C20: among the surviving rows that share a file name, the ordinals follow
\* the discovery order: the first discovered keeps the plain name
\* (occurrence 0) and the k-th later one gets the suffix _k.
C20_SuffixFollowsDiscoveryOrder ==
    Deduplicated =>
       \A a, b \in 1..Len(unique_files) :
          (unique_files[a].name = unique_files[b].name
              /\ unique_files[a].path < unique_files[b].path)
             => unique_files[a].name_occurrence < unique_files[b].name_occurrence

-----------------------------------------------------------------------------
(* ResourceManager.get_safe_worker_count (src/src/resource_manager.py) *)

\* seconds for which a computed worker count is returned again
CacheSeconds == 30

\* megabytes always reserved for the operating system
OsReservedMb == 512

\* megabytes one worker is given
RamPerWorkerMb == 400

\* the clock of the model runs for this many seconds
MaxElapsed == 40

TickSeconds == 10

StartTime == 1000

\* a reading of /proc/meminfo and psutil; fails: the readings raise
MemReading(avail_mb, total_mb, percent, swap_total, swap_percent) ==
    [avail_mb |-> avail_mb, total_mb |-> total_mb, percent |-> percent,
     swap_total |-> swap_total, swap_percent |-> swap_percent, fails |-> FALSE]

MemReadings ==
    {MemReading(a, t, p, sw[1], sw[2]) :
        a \in {300, 900, 1200, 1900, 2500, 4000}, t \in {2048, 8192},
        p \in {50, 90}, sw \in {<<0, 0>>, <<1, 50>>}}
    \cup {[MemReading(4000, 8192, 50, 0, 0) EXCEPT !.fails = TRUE]}

\* ResourceManager.__init__
InitMaxWorkers(configured) == Min2(configured, 2)

InitMinFreeMb(configured) == Max2(configured, 512)

\* _detect_memory_pressure; vm.available is the same reading as avail_mb
_detect_memory_pressure(m) ==
    \/ m.fails
    \/ m.percent > 80
    \/ m.avail_mb < 1024
    \/ (m.swap_total > 0 /\ m.swap_percent > 20)

\* usable_mb: what is left after the reserves, capped at 30% of total RAM
UsableMb(m, min_free) ==
    LET usable_mb      == Max2(0, m.avail_mb - OsReservedMb - min_free)
        max_worker_ram == (m.total_mb * 3) \div 10
    IN  IF usable_mb > max_worker_ram THEN max_worker_ram ELSE usable_mb

\* while workers > 1 and usable_mb / workers < 400: workers -= 1
RECURSIVE FitWorkers(_, _)
FitWorkers(n, usable_mb) ==
    IF n > 1 /\ usable_mb < RamPerWorkerMb * n THEN FitWorkers(n - 1, usable_mb) ELSE n

\* the body of the try block: the worker count for one reading
ComputedWorkers(m, max_w, min_free) ==
    LET usable_mb == UsableMb(m, min_free)
        by_ram    == IF usable_mb < 800 THEN 1
                     ELSE Max2(1, FitWorkers(Min2(max_w, Max2(1, usable_mb \div RamPerWorkerMb)),
                                             usable_mb))
        calm      == IF _detect_memory_pressure(m) \/ m.avail_mb < 1000 THEN 1 ELSE by_ram
    IN  IF m.avail_mb < 2000 THEN 1 ELSE calm

\* get_safe_worker_count: the value returned and the cache it leaves
get_safe_worker_count(m, t, max_w, min_free, cached, last) ==
    IF cached # 0 /\ t - last < CacheSeconds
    THEN [workers |-> cached, cached |-> cached, last |-> last]
    ELSE IF m.fails THEN [workers |-> 1, cached |-> cached, last |-> last]
    ELSE LET n == ComputedWorkers(m, max_w, min_free)
         IN  [workers |-> n, cached |-> n, last |-> t]

InitWorkers ==
    /\ fs = <<>>
    /\ staged = <<>>
    /\ pdf_validation = <<>>
    /\ analysis_results = <<>>
    /\ analysed = <<>>
    /\ unique_files = <<>>
    /\ index = <<>>
    /\ copies = <<>>
    /\ pc = "idle"
    /\ config = UsableConfig
    /\ BuildIdle
    /\ LateIdle
    /\ kb = NoKnowledge
    /\ query = <<>>
    /\ cls = <<>>
    /\ row_result = <<>>
    /\ cpc = "idle"
    /\ RepairIdle
    /\ mem \in MemReadings
    /\ now = StartTime
    /\ max_workers \in {InitMaxWorkers(c) : c \in {0, 1, 2, 4}}
    /\ min_free_mb \in {InitMinFreeMb(c) : c \in {256, 1024}}
    /\ _cached_worker_count = 0
    /\ _last_check_time = 0
    /\ workers = 0
    /\ wpc = "waiting"

get_safe_worker_count_call ==
    /\ LET r == get_safe_worker_count(mem, now, max_workers, min_free_mb,
                                      _cached_worker_count, _last_check_time)
       IN  /\ workers' = r.workers
           /\ _cached_worker_count' = r.cached
           /\ _last_check_time' = r.last
    /\ wpc' = "returned"
    /\ UNCHANGED <<pipeVars, kb, clsVars, repairVars, lateVars, mem, now, max_workers, min_free_mb>>

\* the memory of the machine changes between two calls
memory_changes ==
    /\ mem' \in MemReadings \ {mem}
    /\ wpc' = "waiting"
    /\ UNCHANGED <<pipeVars, kb, clsVars, repairVars, lateVars, now, max_workers, min_free_mb,
                   _cached_worker_count, _last_check_time, workers>>

\* time passes between two calls
time_passes ==
    /\ now + TickSeconds <= StartTime + MaxElapsed
    /\ now' = now + TickSeconds
    /\ wpc' = "waiting"
    /\ UNCHANGED <<pipeVars, kb, clsVars, repairVars, lateVars, mem, max_workers, min_free_mb,
                   _cached_worker_count, _last_check_time, workers>>

NextWorkers == get_safe_worker_count_call \/ memory_changes \/ time_passes

SpecWorkers == InitWorkers /\ [][NextWorkers]_vars

-----------------------------------------------------------------------------
(* Properties of get_safe_worker_count *)

WorkersReturned == wpc = "returned"

\* C14: the value returned lies between 1 and max(1, max_workers), the usable
\* memory computed is never negative, and with available memory below the
\* reserved margin, or usable memory below one worker's need, the value is 1.
C14_WorkerCountInRange ==
    WorkersReturned =>
       /\ workers \in 1..Max2(1, max_workers)
       /\ UsableMb(mem, min_free_mb) >= 0
       /\ (mem.avail_mb < OsReservedMb + min_free_mb
              \/ UsableMb(mem, min_free_mb) < RamPerWorkerMb) => workers = 1

\* C15: the workers returned, each with its memory estimate, fit into the
\* available memory less the margin reserved for the operating system.
C15_WorkersFitAvailableMemory ==
    (WorkersReturned /\ ~mem.fails) =>
       workers * RamPerWorkerMb <= mem.avail_mb - OsReservedMb

\* C16: under memory pressure (memory-used percentage or swap utilisation
\* above its threshold) at the moment of the call, the call returns 1,
\* whatever an earlier call returned.
C16_PressureForcesSingleWorker ==
    (WorkersReturned /\ (mem.percent > 80 \/ (mem.swap_total > 0 /\ mem.swap_percent > 20)))
       => workers = 1

-----------------------------------------------------------------------------
(* Properties of copy_and_index and of the batches of build() *)

\* copy_and_index has gone through its loop over unique_files
CopyRan == pc = "done" /\ unique_files # <<>> /\ config.library_root_ok

\* C22: the copy of a winner and its index row succeed or fail together:
\* when copy_and_index has finished, the index holds exactly one row per
\* winner whose file was copied (no copy without its row, no row without its
\* copy), and every winner is counted exactly once, as copied or as failed.
C22_CopyAndIndexRowGoTogether ==
    CopyRan =>
       /\ Len(index) = Len(copies)
       /\ \A i \in 1..Len(index) : index[i].path = copies[i].destination
       /\ copied_count = Len(copies)
       /\ copied_count + failed_count = Len(unique_files)

\* the batches validate_and_repair_pdfs and classify_and_analyze go through
PdfBatches == Chunks(staged, PdfChunkSize(AvailableMb))

ClassifyBatches == Chunks(staged, ClassifyChunkSize(AvailableMb))

\* C26: before every batch of validate_and_repair_pdfs and of
\* classify_and_analyze a fresh get_safe_worker_count query is made: once a
\* phase is over there have been at least as many queries as batches.
C26_WorkerCountQueriedBeforeEveryBatch ==
    /\ pc \in {"validated", "analysed", "deduplicated", "done"}
          => worker_queries >= Len(PdfBatches)
    /\ pc \in {"analysed", "deduplicated", "done"}
          => worker_queries >= Len(PdfBatches) + Len(ClassifyBatches)

\* the staged rows of PDFs
StagedPdfs == {k \in 1..Len(staged) : IsPdf(staged[k])}

\* C27: a failure on one item never aborts a batch: after validation every
\* staged PDF has its details stored, whatever the other rows of its chunk
\* are, and after classification every staged file that can be read has its
\* analysis result among the results kept.
C27_ItemFailureKeepsTheRestOfTheBatch ==
    /\ pc \in {"validated", "analysed", "deduplicated", "done"}
          => \A k \in StagedPdfs : staged[k].path \in DOMAIN pdf_validation
    /\ pc \in {"analysed", "deduplicated", "done"}
          => \A k \in 1..Len(staged) :
                fs[staged[k].path].avail = "ok"
                   => \E a \in 1..Len(analysis_results) :
                         analysis_results[a].hash = Sha256(fs[staged[k].path].content)

\* C29: two winners are never copied onto the same destination file, also
\* when a source file is itself named like a suffixed name (a_1.txt next to
\* a second a.txt).
C29_DestinationsAreDistinct ==
    pc = "done" =>
        \A i, j \in 1..Len(copies) :
            copies[i].destination = copies[j].destination => i = j

-----------------------------------------------------------------------------
(* Properties of the error records of validation and repair *)

\* the call ended with a failure of the file: not a skipped AppleDouble file,
\* and not valid, neither as it is nor repaired
FileFailed ==
    /\ Returned
    /\ ~StartsWith(pdf_case.file.name, <<".","_">>)
    /\ repaired.is_valid = "False"

DetailsReturned ==
    /\ Returned
    /\ ~StartsWith(pdf_case.file.name, <<".","_">>)
    /\ pdf_case.validate = "returns"

\* C30: get_pdf_details never returns has_text true together with is_valid
\* false: text is only reported for a file that is reported valid.
C30_TextOnlyInValidPdf ==
    DetailsReturned =>
        ~(get_pdf_details(pdf_case.file)[1] = "False"
             /\ get_pdf_details(pdf_case.file)[2] = "True")

-----------------------------------------------------------------------------
(* librarian.run_with_timeout, step by step: one multiprocessing.Process,
   its Queue, join(timeout), terminate() and join(5) *)

\* the largest timeout of a call, in ticks of the clock of the scenario
MaxTimeout == 3

\* the pipeline, the classifier and the store at rest
PipelineIdle ==
    /\ fs = <<>>
    /\ staged = <<>>
    /\ pdf_validation = <<>>
    /\ analysis_results = <<>>
    /\ analysed = <<>>
    /\ unique_files = <<>>
    /\ index = <<>>
    /\ copies = <<>>
    /\ pc = "idle"
    /\ config = UsableConfig
    /\ BuildIdle
    /\ kb = NoKnowledge
    /\ query = <<>>
    /\ cls = <<>>
    /\ row_result = <<>>
    /\ cpc = "idle"

\* what func does in the subprocess: it returns a value (the details of
\* get_pdf_details, the flag of repair_pdf), raises, dies without
\* putting anything on the queue, or does not come back (a native parser
\* that hangs, a read that blocks)
TimedFuncs ==
    [ends : {"returns"}, result : PdfOutcomes \cup {<<"True">>, <<"False">>}]
        \cup [ends : {"raises", "dies", "hangs"}, result : {<<"Exception">>}]

InitTimeout ==
    /\ PipelineIdle
    /\ RepairIdle
    /\ WorkersIdle
    /\ LogIdle
    /\ PhasesIdle
    /\ WaitIdle
    /\ proc \in [state : {"not_started"}, func : TimedFuncs, timeout : 1..MaxTimeout,
                  elapsed : {0}]
    /\ queue = <<>>
    /\ timed = <<>>
    /\ tpc = "start"

timeoutRest == <<pipeVars, kb, clsVars, repairVars, workerVars, logVars, phaseVars, waitVars>>

\* p.start()
process_start ==
    /\ tpc = "start"
    /\ proc' = [proc EXCEPT !.state = "running"]
    /\ tpc' = "joining"
    /\ UNCHANGED <<timeoutRest, queue, timed>>

\* target: q.put((True, res)) or q.put((False, e)), and the process exits
target_ends ==
    /\ tpc = "joining"
    /\ proc.state = "running"
    /\ proc.func.ends # "hangs"
    /\ queue' = CASE proc.func.ends = "returns" -> <<TRUE, proc.func.result>>
                   [] proc.func.ends = "raises" -> <<FALSE, <<"Exception">>>>
                   [] OTHER -> <<>>
    /\ proc' = [proc EXCEPT !.state = "exited"]
    /\ UNCHANGED <<timeoutRest, timed, tpc>>

\* p.join(timeout) goes on waiting
join_waits ==
    /\ tpc = "joining"
    /\ proc.state = "running"
    /\ proc.elapsed < proc.timeout
    /\ proc' = [proc EXCEPT !.elapsed = @ + 1]
    /\ UNCHANGED <<timeoutRest, queue, timed, tpc>>

\* p.join(timeout) returns, the process has exited or the timeout is over,
\* and p.is_alive() is read
join_ends ==
    /\ tpc = "joining"
    /\ proc.state = "exited" \/ proc.elapsed = proc.timeout
    /\ tpc' = IF proc.state = "running" THEN "alive" ELSE "not_alive"
    /\ UNCHANGED <<timeoutRest, proc, queue, timed>>

\* p.terminate(); p.join(5); return (False, TimeoutError): SIGTERM is sent and
\* the process is waited for during 5 seconds; a process that does not act on
\* the signal in that time (blocked in an uninterruptible read, or with
\* SIGTERM handled or ignored by func) is still running at the return
terminate_and_return ==
    /\ tpc = "alive"
    /\ \E exits \in BOOLEAN :
          proc' = [proc EXCEPT !.state = IF exits THEN "exited" ELSE "running"]
    /\ timed' = <<FALSE, <<"TimeoutError">>>>
    /\ tpc' = "returned"
    /\ UNCHANGED <<timeoutRest, queue>>

\* return q.get(), or (False, RuntimeError) with an empty queue
return_result ==
    /\ tpc = "not_alive"
    /\ timed' = IF queue # <<>> THEN queue ELSE <<FALSE, <<"RuntimeError">>>>
    /\ tpc' = "returned"
    /\ UNCHANGED <<timeoutRest, proc, queue>>

NextTimeout ==
    \/ process_start
    \/ target_ends
    \/ join_waits
    \/ join_ends
    \/ terminate_and_return
    \/ return_result

SpecTimeout == InitTimeout /\ [][NextTimeout]_vars

\* C24: an operation that exceeds its time box is force-terminated:
\* run_with_timeout returns (False, TimeoutError) only after the process has
\* been terminated, and whenever it returns, on completion or on timeout, the
\* process it spawned is no longer running.
C24_ProcessGoneWhenRunWithTimeoutReturns ==
    tpc = "returned" => proc.state = "exited"

-----------------------------------------------------------------------------
(* librarian.build_library between its PDF validation/repair phase and its
   classification/hashing phase *)

\* the most worker processes the ProcessPoolExecutor gets in the model;
\* max_workers is min(8, cpu_count) in the code
MaxPoolWorkers == 3

\* the worker processes of a ProcessPoolExecutor of n workers
PoolWorkers(n) == {[kind |-> "pool worker", id |-> k] : k \in 1..n}

IsPoolWorker(p) == p.kind = "pool worker"

\* the Process that run_with_timeout starts inside a pool worker
SubprocessOf(w) == [kind |-> "run_with_timeout", id |-> w.id]

\* max_wait of the loop that waits for the child processes, 30 in the code
MaxChildWait == 3

InitPhases ==
    /\ PipelineIdle
    /\ RepairIdle
    /\ WorkersIdle
    /\ LogIdle
    /\ TimeoutIdle
    /\ WaitIdle
    /\ children = {}
    /\ waited_children = 0
    /\ phase = "start"

phaseRest == <<pipeVars, kb, clsVars, repairVars, workerVars, logVars, timeoutVars, waitVars>>

\* with ProcessPoolExecutor(max_workers=max_workers) as executor: submit
pool_starts ==
    /\ phase = "start"
    /\ \E n \in 1..MaxPoolWorkers : children' = PoolWorkers(n)
    /\ phase' = "validation"
    /\ UNCHANGED <<phaseRest, waited_children>>

\* a pool worker calls run_with_timeout: p.start()
subprocess_starts ==
    /\ phase \in {"validation", "shutdown"}
    /\ \E w \in {p \in children : IsPoolWorker(p)} :
          /\ SubprocessOf(w) \notin children
          /\ children' = children \cup {SubprocessOf(w)}
    /\ UNCHANGED <<phaseRest, waited_children, phase>>

\* a subprocess of run_with_timeout exits, by itself or terminated
subprocess_exits ==
    /\ \E p \in {q \in children : ~IsPoolWorker(q)} : children' = children \ {p}
    /\ UNCHANGED <<phaseRest, waited_children, phase>>

\* every future has been collected and the with block is left:
\* shutdown(wait=True) starts to join the pool workers
executor_shutdown ==
    /\ phase = "validation"
    /\ phase' = "shutdown"
    /\ UNCHANGED <<phaseRest, children, waited_children>>

\* a pool worker has no more work and exits; its run_with_timeout has
\* returned, whether or not the subprocess it terminated is gone
worker_exits ==
    /\ phase = "shutdown"
    /\ \E w \in {p \in children : IsPoolWorker(p)} : children' = children \ {w}
    /\ UNCHANGED <<phaseRest, waited_children, phase>>

\* shutdown(wait=True) returns: every pool worker is joined; waited = 0
shutdown_returns ==
    /\ phase = "shutdown"
    /\ \A p \in children : ~IsPoolWorker(p)
    /\ waited_children' = 0
    /\ phase' = "waiting"
    /\ UNCHANGED <<phaseRest, children>>

\* children = process.children(recursive=True); if not children: break
wait_breaks ==
    /\ phase = "waiting"
    /\ children = {}
    /\ phase' = "classification"
    /\ UNCHANGED <<phaseRest, children, waited_children>>

\* time.sleep(1); waited += 1; if waited >= max_wait: "proceeding anyway"
wait_sleeps ==
    /\ phase = "waiting"
    /\ children # {}
    /\ waited_children' = waited_children + 1
    /\ phase' = IF waited_children + 1 >= MaxChildWait THEN "classification" ELSE phase
    /\ UNCHANGED <<phaseRest, children>>

NextPhases ==
    \/ pool_starts
    \/ subprocess_starts
    \/ subprocess_exits
    \/ executor_shutdown
    \/ worker_exits
    \/ shutdown_returns
    \/ wait_breaks
    \/ wait_sleeps

SpecPhases == InitPhases /\ [][NextPhases]_vars

-----------------------------------------------------------------------------
(* ResourceManager.wait_for_free_ram *)

\* the largest max_wait and check_interval of a call, in seconds
MaxWait == 4

MaxCheckInterval == 2

\* polls are counted up to this number
MaxPolls == 6

\* min_free_mb not given: None
NoArgument == 0 - 1

\* the readings the wait may see: little or plenty of available RAM, on a
\* small or large machine, with or without pressure, or readings that raise
WaitReadings == {m \in MemReadings : m.avail_mb \in {300, 2500} /\ m.swap_total = 0}

\* check_interval may be any number: negative, zero or positive
WaitArguments ==
    [min_free_mb : {NoArgument, 200, 1000},
     check_interval : (0 - 1)..MaxCheckInterval,
     max_wait : 1..MaxWait]

InitWait ==
    /\ PipelineIdle
    /\ RepairIdle
    /\ LogIdle
    /\ TimeoutIdle
    /\ PhasesIdle
    /\ mem \in WaitReadings
    /\ now = 0
    /\ max_workers = InitMaxWorkers(2)
    /\ min_free_mb = InitMinFreeMb(512)
    /\ _cached_worker_count \in {0, 1}
    /\ _last_check_time = 0
    /\ workers = 0
    /\ wpc = "idle"
    /\ wait_args \in WaitArguments
    /\ waited = 0
    /\ polls = 0
    /\ fpc = "called"

waitRest == <<pipeVars, kb, clsVars, repairVars, logVars, timeoutVars, phaseVars,
              now, max_workers, min_free_mb, workers, wpc>>

\* the threshold the loop compares with: self.min_free_mb for None, and at
\* most 256 on a machine of less than 4 GB
WaitThreshold(args, m, own_min_free) ==
    LET given == IF args.min_free_mb = NoArgument THEN own_min_free ELSE args.min_free_mb
    IN  IF m.total_mb < 4096 THEN Min2(given, 256) ELSE given

\* the statements before the loop: get_total_ram_mb is psutil.virtual_memory
\* outside any try, so a reading that raises ends the call with the exception
wait_begins ==
    /\ fpc = "called"
    /\ IF mem.fails
       THEN /\ fpc' = "raised"
            /\ UNCHANGED wait_args
       ELSE /\ fpc' = "loop"
            /\ wait_args' = [wait_args EXCEPT !.min_free_mb = WaitThreshold(wait_args, mem, min_free_mb)]
    /\ waited' = 0
    /\ UNCHANGED <<waitRest, mem, polls, _cached_worker_count, _last_check_time>>

\* one pass of `while waited < max_wait`: the available RAM is read, forced
\* cleanup under memory pressure clears the cached worker count, enough RAM
\* breaks the loop, else time.sleep(check_interval) (ValueError for a
\* negative number) and waited += check_interval
wait_poll ==
    /\ fpc = "loop"
    /\ waited < wait_args.max_wait
    /\ polls' = Min2(polls + 1, MaxPolls)
    /\ IF _detect_memory_pressure(mem)
       THEN /\ _cached_worker_count' = 0
            /\ _last_check_time' = 0
       ELSE UNCHANGED <<_cached_worker_count, _last_check_time>>
    /\ IF mem.fails
       THEN fpc' = "raised" /\ UNCHANGED waited
       ELSE IF mem.avail_mb >= wait_args.min_free_mb
            THEN fpc' = "returned" /\ UNCHANGED waited
       ELSE IF wait_args.check_interval < 0
            THEN fpc' = "raised" /\ UNCHANGED waited
       ELSE /\ waited' = waited + wait_args.check_interval
            /\ fpc' = "loop"
    /\ UNCHANGED <<waitRest, mem, wait_args>>

\* the loop ends with waited >= max_wait: the warning, and the return
wait_gives_up ==
    /\ fpc = "loop"
    /\ waited >= wait_args.max_wait
    /\ fpc' = "returned"
    /\ UNCHANGED <<waitRest, mem, wait_args, waited, polls, _cached_worker_count,
                   _last_check_time>>

\* other processes take or release memory while the call sleeps
ram_changes ==
    /\ fpc = "loop"
    /\ mem' \in WaitReadings \ {mem}
    /\ UNCHANGED <<waitRest, wait_args, waited, polls, fpc, _cached_worker_count,
                   _last_check_time>>

wait_for_free_ram == wait_begins \/ wait_poll \/ wait_gives_up

NextWait ==
    \/ wait_begins
    \/ wait_poll
    \/ wait_gives_up
    \/ ram_changes

\* the call keeps running: the interpreter executes its next statement
SpecWait == InitWait /\ [][NextWait]_vars /\ WF_vars(wait_for_free_ram)

\* ceil(max_wait / check_interval) for a positive check_interval
CeilDiv(a, b) == (a + b - 1) \div b

\* C28: wait_for_free_ram always terminates without raising, for every
\* positive max_wait and every check_interval: it returns, and when the
\* interval is positive it has polled at most ceil(max_wait / check_interval)
\* times.
C28_WaitAlwaysReturnsWithinItsPolls ==
    /\ <>(fpc = "returned")
    /\ [](wait_args.check_interval > 0
             => polls <= CeilDiv(wait_args.max_wait, wait_args.check_interval))

====
